---- MODULE Spec2Model ----
(***************************************************************************)
(* Model of the commodity price dashboard (src/app.py): the memoized CSV   *)
(* load, the row filter, the per-commodity percentage changes, the four    *)
(* presentation panels and the CSV export, as one script run per render.   *)
(*                                                                         *)
(* Numbers are exact rationals: binary floating-point rounding is not      *)
(* modelled.  Strings that the code normalises (column names, commodity    *)
(* and unit cells) are sequences of one-character strings.                 *)
(***************************************************************************)
EXTENDS Integers, Sequences, FiniteSets, TLC

VARIABLES
    file,         \* the delimited input file: [columns, rows]
    cache,        \* st.cache_data's memo of load_data(DATA_PATH)
    loadState,    \* "pending" | "ok" | "error"
    loadError,    \* the ValueError of load_data: [missing, found]
    df,           \* module global df of the latest script run
    selected,     \* selected_commodities of the latest run
    date_range,   \* the date_input value of the latest run (1 or 2 dates)
    info_choice,  \* the option_menu value of the latest run
    df_f,         \* filter_data's result
    dfx,          \* add_changes' result
    warning,      \* the st.warning shown: "none" | "empty_filter" | "insufficient_mom"
    halted,       \* st.stop() was called in the latest run
    raised,       \* the exception that ended the latest run, or "none"
    panel,        \* what the selected panel computed
    csv_out,      \* the lines offered by the download button, <<>> if none
    pc            \* where the latest script run ended, "none" before any

vars == <<file, cache, loadState, loadError, df, selected, date_range,
          info_choice, df_f, dfx, warning, halted, raised, panel, csv_out,
          pc>>

-----------------------------------------------------------------------------
(* Bounds of the model.                                                    *)

MaxRows == 3        \* rows of a loaded table, menu interactions only
MaxFilterRows == 2  \* rows of a loaded table, filter interactions too
MaxFileRows == 2    \* rows of a raw input file
MaxPrice == 3       \* prices are 0, 1 and MaxPrice
NumYears == 3       \* observed years are GuardYear..GuardYear+NumYears-1

(* Program constants.                                                      *)

GuardYear == 2020       \* `2020 in years`
DefaultYear == 2021     \* `years.index(2021)`
MomPeriods == 1         \* pct_change(1)
YoyPeriods == 12        \* pct_change(12)
TailRows == 12          \* groupby(...).tail(12)
RoundDigits == 2        \* .round(2)

-----------------------------------------------------------------------------
(* Strings.                                                                *)

\* The characters used, in code point order.
Alphabet ==
    <<" ", "C", "D", "E", "I", "K", "O", "P", "R", "U",
      "a", "c", "d", "e", "g", "i", "l", "m", "n", "o", "p", "r", "t", "u", "y">>

CodePoints ==
    [c \in {Alphabet[i] : i \in DOMAIN Alphabet} |->
        CHOOSE i \in DOMAIN Alphabet : Alphabet[i] = c]

CharCode(c) == CodePoints[c]

\* str.lower() on one character.
LowerChar(c) ==
    CASE c = "C" -> "c" [] c = "D" -> "d" [] c = "E" -> "e" [] c = "I" -> "i"
      [] c = "O" -> "o" [] c = "P" -> "p" [] c = "R" -> "r"
      [] c = "U" -> "u" [] OTHER -> c

StrLower(s) == [i \in DOMAIN s |-> LowerChar(s[i])]

RECURSIVE LStrip(_)
LStrip(s) == IF s # <<>> /\ Head(s) = " " THEN LStrip(Tail(s)) ELSE s

RECURSIVE RStrip(_)
RStrip(s) ==
    IF s # <<>> /\ s[Len(s)] = " " THEN RStrip(SubSeq(s, 1, Len(s) - 1)) ELSE s

\* str.strip()
StrStrip(s) == RStrip(LStrip(s))

\* Python's < on strings: lexicographic by code point.
RECURSIVE StrLess(_, _)
StrLess(s, t) ==
    IF t = <<>> THEN FALSE
    ELSE IF s = <<>> THEN TRUE
    ELSE IF Head(s) = Head(t) THEN StrLess(Tail(s), Tail(t))
    ELSE CharCode(Head(s)) < CharCode(Head(t))

DATE == <<"d", "a", "t", "e">>
COMMODITY == <<"c", "o", "m", "m", "o", "d", "i", "t", "y">>
PRICE == <<"p", "r", "i", "c", "e">>
CURRENCY == <<"c", "u", "r", "r", "e", "n", "c", "y">>
UNIT == <<"u", "n", "i", "t">>
YEAR == <<"y", "e", "a", "r">>
MONTH == <<"m", "o", "n", "t", "h">>
IDR == <<"I", "D", "R">>
Rice == <<"R", "i", "c", "e">>
Oil == <<"O", "i", "l">>
Kg == <<"K", "g">>

Range(s) == {s[i] : i \in DOMAIN s}

-----------------------------------------------------------------------------
(* Numbers: exact rationals, NaN and signed infinity.                      *)

Abs(i) == IF i < 0 THEN 0 - i ELSE i

RECURSIVE GCD(_, _)
GCD(a, b) == IF b = 0 THEN a ELSE GCD(b, a % b)

NaN == [k |-> "nan", n |-> 0, d |-> 1]
Inf(sign) == [k |-> "inf", n |-> sign, d |-> 0]

\* n/d in lowest terms, d > 0.
Rat(n, d) ==
    LET g == GCD(Abs(n), d)
    IN  [k |-> "num", n |-> IF n < 0 THEN 0 - (Abs(n) \div g) ELSE n \div g,
         d |-> d \div g]

FromInt(i) == Rat(i, 1)

Sign(i) == IF i < 0 THEN 0 - 1 ELSE IF i > 0 THEN 1 ELSE 0

IsNum(x) == x.k = "num"
IsNA(x) == x.k = "nan"

\* x / y as floating point division does it: 0/0 is NaN, x/0 is +-inf.
NumDiv(x, y) ==
    IF IsNA(x) \/ IsNA(y) THEN NaN
    ELSE IF IsNum(x) /\ IsNum(y) THEN
        IF y.n = 0 THEN (IF x.n = 0 THEN NaN ELSE Inf(Sign(x.n)))
        ELSE Rat(Sign(y.n) * x.n * y.d, Abs(y.n) * x.d)
    ELSE IF IsNum(y) THEN Inf(IF y.n < 0 THEN 0 - x.n ELSE x.n)
    ELSE IF IsNum(x) THEN FromInt(0)
    ELSE NaN

NumSub(x, y) ==
    IF IsNA(x) \/ IsNA(y) THEN NaN
    ELSE IF IsNum(x) /\ IsNum(y) THEN Rat(x.n * y.d - y.n * x.d, x.d * y.d)
    ELSE IF IsNum(y) THEN x
    ELSE IF IsNum(x) THEN Inf(0 - y.n)
    ELSE IF x.n = y.n THEN NaN ELSE x

NumMul(x, y) ==
    IF IsNA(x) \/ IsNA(y) THEN NaN
    ELSE IF IsNum(x) /\ IsNum(y) THEN Rat(x.n * y.n, x.d * y.d)
    ELSE IF Sign(x.n) * Sign(y.n) = 0 THEN NaN
    ELSE Inf(Sign(x.n) * Sign(y.n))

\* x < y for two values that are not NaN.
NumLess(x, y) ==
    IF IsNum(x) /\ IsNum(y) THEN x.n * y.d < y.n * x.d
    ELSE IF IsNum(x) THEN y.n > 0
    ELSE IF IsNum(y) THEN x.n < 0
    ELSE x.n < y.n

RECURSIVE Pow10(_)
Pow10(e) == IF e = 0 THEN 1 ELSE 10 * Pow10(e - 1)

\* round(digits): to the nearest multiple of 10^-digits, halves to even.
NumRound(x, digits) ==
    IF ~IsNum(x) THEN x
    ELSE LET s == Pow10(digits)
             a == Abs(x.n) * s
             q == a \div x.d
             r == a % x.d
             up == (2 * r > x.d) \/ (2 * r = x.d /\ q % 2 = 1)
             m == IF up THEN q + 1 ELSE q
         IN  Rat(Sign(x.n) * m, s)

-----------------------------------------------------------------------------
(* Dates are month ordinals: year * 12 + (month - 1).                      *)

DateOf(y, m) == y * 12 + (m - 1)
YearOf(d) == d \div 12          \* .dt.year
MonthOf(d) == (d % 12) + 1      \* .dt.month

Years == GuardYear .. (GuardYear + NumYears - 1)
Dates == {DateOf(y, 1) : y \in Years}
Prices == {0, 1, MaxPrice}

-----------------------------------------------------------------------------
(* Tables: [cols |-> sequence of column names, rows |-> sequence of rows]. *)

NoTable == [cols |-> <<>>, rows |-> <<>>]

\* (commodity, date) of r sorts strictly before that of s.
KeyLess(r, s) ==
    IF r.commodity = s.commodity THEN r.date < s.date
    ELSE StrLess(r.commodity, s.commodity)

\* Insert r after every row that does not sort after it (stable).
RECURSIVE InsertRow(_, _)
InsertRow(sorted, r) ==
    IF sorted = <<>> THEN <<r>>
    ELSE IF KeyLess(r, Head(sorted)) THEN <<r>> \o sorted
    ELSE <<Head(sorted)>> \o InsertRow(Tail(sorted), r)

RECURSIVE SortByKey(_)
SortByKey(rows) ==
    IF rows = <<>> THEN <<>>
    ELSE InsertRow(SortByKey(SubSeq(rows, 1, Len(rows) - 1)), rows[Len(rows)])

\* df.sort_values(["commodity", "date"]): a stable multi-key sort.
SortValues(rows) == SortByKey(rows)

-----------------------------------------------------------------------------
(* load_data                                                               *)

Required == {DATE, COMMODITY, PRICE}

\* [c.strip().lower() for c in df.columns], without the lower-casing.
NormalizeColumnsStripOnly(columns) ==
    [i \in DOMAIN columns |-> StrStrip(columns[i])]

\* [c.strip().lower() for c in df.columns]
NormalizeColumns(columns) ==
    [i \in DOMAIN columns |-> StrLower(StrStrip(columns[i]))]

\* required - set(df.columns)
MissingColumns(cols) == Required \ Range(cols)

\* One parsed row: the cells coerced, the strings stripped, the defaults
\* filled in and year and month derived.
LoadRow(cols, raw) ==
    [date |-> raw.date.v,
     commodity |-> StrStrip(raw.commodity),
     price |-> raw.price.v,
     currency |-> IF CURRENCY \in Range(cols) THEN StrStrip(raw.currency) ELSE IDR,
     unit |-> IF UNIT \in Range(cols) THEN StrStrip(raw.unit) ELSE <<>>,
     year |-> YearOf(raw.date.v),
     month |-> MonthOf(raw.date.v)]

\* The columns of the returned table: the file's, then the defaulted and
\* the derived ones in the order the code adds them.
LoadColumns(cols) ==
    cols \o (IF CURRENCY \in Range(cols) THEN <<>> ELSE <<CURRENCY>>)
         \o (IF UNIT \in Range(cols) THEN <<>> ELSE <<UNIT>>)
         \o <<YEAR, MONTH>>

IsDateOk(raw) == raw.date.ok
IsPriceOk(raw) == raw.price.ok

\* load_data(path): the ValueError, or the normalized table.
LoadData(f) ==
    LET cols == NormalizeColumns(f.columns)
        missing == MissingColumns(cols)
    IN  IF missing # {}
        THEN [error |-> TRUE, missing |-> missing, found |-> cols,
              table |-> NoTable]
        ELSE LET dated == SelectSeq(f.rows, IsDateOk)
                 priced == SelectSeq(dated, IsPriceOk)
                 parsed == [i \in DOMAIN priced |-> LoadRow(cols, priced[i])]
             IN  [error |-> FALSE, missing |-> {}, found |-> cols,
                  table |-> [cols |-> LoadColumns(cols),
                             rows |-> SortValues(parsed)]]

NoError == [missing |-> {}, found |-> <<>>]

-----------------------------------------------------------------------------
(* filter_data                                                             *)

MOM_PCT == <<"m", "o", "m", "_", "p", "c", "t">>
YOY_PCT == <<"y", "o", "y", "_", "p", "c", "t">>

\* A variant of filter_data that drops the other rows from df itself.
FilterDataInPlace(d, selected_commodities, start_date, end_date) ==
    LET Keep(r) == /\ r.commodity \in selected_commodities
                   /\ r.date >= start_date
                   /\ r.date <= end_date
        kept == [cols |-> d.cols, rows |-> SelectSeq(d.rows, Keep)]
    IN  [arg |-> kept, ret |-> kept]

\* A variant of filter_data whose end bound is exclusive.
FilterDataOpenEnd(d, selected_commodities, start_date, end_date) ==
    LET Keep(r) == /\ r.commodity \in selected_commodities
                   /\ r.date >= start_date
                   /\ r.date < end_date
    IN  [arg |-> d, ret |-> [cols |-> d.cols, rows |-> SelectSeq(d.rows, Keep)]]

\* filter_data(df, selected_commodities, start_date, end_date): the boolean
\* mask keeps row order; .copy() makes the result a new table, so the
\* argument (arg) is left as it was.
FilterData(d, selected_commodities, start_date, end_date) ==
    LET Keep(r) == /\ r.commodity \in selected_commodities
                   /\ r.date >= start_date
                   /\ r.date <= end_date
    IN  [arg |-> d, ret |-> [cols |-> d.cols, rows |-> SelectSeq(d.rows, Keep)]]

\* df_f.empty
IsEmptyNever(t) == FALSE

IsEmpty(t) == Len(t.rows) = 0

-----------------------------------------------------------------------------
(* add_changes                                                             *)

\* The indices from i on of the rows of commodity c, in row order.
RECURSIVE GroupIndicesFrom(_, _, _)
GroupIndicesFrom(rows, i, c) ==
    IF i > Len(rows) THEN <<>>
    ELSE (IF rows[i].commodity = c THEN <<i>> ELSE <<>>)
         \o GroupIndicesFrom(rows, i + 1, c)

GroupIndices(rows, c) == GroupIndicesFrom(rows, 1, c)

\* 1-based position of row i within its commodity's rows.
GroupPosition(rows, i) ==
    Cardinality({j \in 1 .. i : rows[j].commodity = rows[i].commodity})

\* pct_change without the "- 1".
PctValueRatio(cur, prev) ==
    NumMul(NumDiv(FromInt(cur), FromInt(prev)), FromInt(100))

\* (cur / prev - 1) * 100
PctValue(cur, prev) ==
    NumMul(NumSub(NumDiv(FromInt(cur), FromInt(prev)), FromInt(1)), FromInt(100))

\* A variant that shifts over the whole column instead of per group.
GroupPctChangeUngrouped(rows, i, periods) ==
    IF i > periods THEN PctValue(rows[i].price, rows[i - periods].price)
    ELSE NaN

\* groupby("commodity")["price"].pct_change(periods) * 100 at row i: the row
\* `periods` positions earlier in the same group, NaN for the first ones.
GroupPctChange(rows, i, periods) ==
    LET g == GroupIndices(rows, rows[i].commodity)
        k == GroupPosition(rows, i)
    IN  IF k > periods
        THEN PctValue(rows[i].price, rows[g[k - periods]].price)
        ELSE NaN

\* add_changes(df): sorts a copy and adds the two columns to the copy.
AddChanges(d) ==
    LET out == SortValues(d.rows)
    IN  [arg |-> d,
         ret |-> [cols |-> d.cols \o <<MOM_PCT, YOY_PCT>>,
                  rows |-> [i \in DOMAIN out |->
                      [date |-> out[i].date,
                       commodity |-> out[i].commodity,
                       price |-> out[i].price,
                       currency |-> out[i].currency,
                       unit |-> out[i].unit,
                       year |-> out[i].year,
                       month |-> out[i].month,
                       mom_pct |-> GroupPctChange(out, i, MomPeriods),
                       yoy_pct |-> GroupPctChange(out, i, YoyPeriods)]]]]

-----------------------------------------------------------------------------
(* Presentation panels                                                     *)

\* sorted(set): the elements of a set of integers, ascending.
RECURSIVE SortedInts(_)
SortedInts(S) ==
    IF S = {} THEN <<>>
    ELSE LET m == CHOOSE x \in S : \A y \in S : x <= y
         IN  <<m>> \o SortedInts(S \ {m})

\* sorted(set) of strings.
RECURSIVE SortedStrs(_)
SortedStrs(S) ==
    IF S = {} THEN <<>>
    ELSE LET m == CHOOSE x \in S : \A y \in S : ~StrLess(y, x)
         IN  <<m>> \o SortedStrs(S \ {m})

CommoditiesOf(rows) == {rows[i].commodity : i \in DOMAIN rows}

\* list.index(x), 0-based; the caller makes sure x is in the list.
ListIndex(list, x) == (CHOOSE i \in DOMAIN list : list[i] = x) - 1

(* Volatility panel. *)

RECURSIVE InsertByDate(_, _)
InsertByDate(sorted, r) ==
    IF sorted = <<>> THEN <<r>>
    ELSE IF r.date < Head(sorted).date THEN <<r>> \o sorted
    ELSE <<Head(sorted)>> \o InsertByDate(Tail(sorted), r)

\* dfx.sort_values("date"), rows of equal date kept in their order.
RECURSIVE SortByDate(_)
SortByDate(rows) ==
    IF rows = <<>> THEN <<>>
    ELSE InsertByDate(SortByDate(SubSeq(rows, 1, Len(rows) - 1)), rows[Len(rows)])

\* Row i is among the last n rows of its commodity.
InGroupTail(rows, i, n) ==
    Cardinality({j \in (i + 1) .. Len(rows) :
                    rows[j].commodity = rows[i].commodity}) < n

RECURSIVE RecentFrom(_, _)
RecentFrom(rows, i) ==
    IF i > Len(rows) THEN <<>>
    ELSE (IF InGroupTail(rows, i, TailRows) /\ ~IsNA(rows[i].mom_pct)
          THEN <<rows[i]>> ELSE <<>>)
         \o RecentFrom(rows, i + 1)

RECURSIVE TailFrom(_, _)
TailFrom(rows, i) ==
    IF i > Len(rows) THEN <<>>
    ELSE (IF InGroupTail(rows, i, TailRows) THEN <<rows[i]>> ELSE <<>>)
         \o TailFrom(rows, i + 1)

\* The same without .dropna(subset=["mom_pct"]).
RecentNoDropna(x) == TailFrom(SortByDate(x.rows), 1)

\* dfx.sort_values("date").groupby("commodity").tail(12).dropna(subset=["mom_pct"])
Recent(x) == RecentFrom(SortByDate(x.rows), 1)

(* Monthly spike panel. *)

\* The defined mom_pct values of commodity c.
DefinedMoms(rows, c) ==
    {rows[i].mom_pct : i \in {j \in DOMAIN rows :
                                rows[j].commodity = c /\ ~IsNA(rows[j].mom_pct)}}

\* peak_list: per commodity with a defined mom_pct, its largest value.
Peaks(x) ==
    {[commodity |-> c,
      mom_pct |-> CHOOSE m \in DefinedMoms(x.rows, c) :
                     \A o \in DefinedMoms(x.rows, c) : ~NumLess(m, o)] :
        c \in {k \in CommoditiesOf(x.rows) : DefinedMoms(x.rows, k) # {}}}

(* Latest price panel. *)

\* groupby("commodity")["date"].idxmax(): the first row of the latest date.
IdxMaxDate(rows, c) ==
    LET g == {i \in DOMAIN rows : rows[i].commodity = c}
        latest == {i \in g : \A j \in g : rows[j].date <= rows[i].date}
    IN  CHOOSE i \in latest : \A j \in latest : i <= j

Latest(f) ==
    {LET r == f.rows[IdxMaxDate(f.rows, c)]
     IN  [commodity |-> r.commodity, date |-> r.date, price |-> r.price,
          currency |-> r.currency, unit |-> r.unit] :
        c \in CommoditiesOf(f.rows)}

(* Before/after panel. *)

\* sorted(df_f["year"].unique().tolist())
YearsOf(f) == SortedInts({f.rows[i].year : i \in DOMAIN f.rows})

\* years.index(2021) if 2020 in years else 0: list.index raises ValueError
\* when 2021 is not in the list.
DefaultIdx(years) ==
    IF GuardYear \in Range(years)
    THEN IF DefaultYear \in Range(years)
         THEN [raised |-> FALSE, idx |-> ListIndex(years, DefaultYear)]
         ELSE [raised |-> TRUE, idx |-> 0]
    ELSE [raised |-> FALSE, idx |-> 0]

Sebelum(pivot_year) == <<"Sebelum", pivot_year>>
Sesudah(pivot_year) == <<"Sesudah", pivot_year>>

\* tmp: the copy of df_f labelled with its phase, pivot-year rows removed.
Tmp(f, pivot_year) ==
    LET NotPivot(r) == r.year # pivot_year
        kept == SelectSeq(f.rows, NotPivot)
    IN  [i \in DOMAIN kept |->
            [commodity |-> kept[i].commodity,
             price |-> kept[i].price,
             year |-> kept[i].year,
             fase |-> IF kept[i].year < pivot_year
                      THEN Sebelum(pivot_year) ELSE Sesudah(pivot_year)]]

RECURSIVE SumPrices(_)
SumPrices(rows) ==
    IF rows = <<>> THEN 0 ELSE Head(rows).price + SumPrices(Tail(rows))

\* groupby(["commodity", "fase"])["price"].mean() joined onto the grid:
\* NaN for a pair without rows.
MeanPrice(tmp, c, fase) ==
    LET InCell(r) == r.commodity = c /\ r.fase = fase
        cell == SelectSeq(tmp, InCell)
    IN  IF cell = <<>> THEN NaN ELSE Rat(SumPrices(cell), Len(cell))

\* agg_full: the product of all_comms and fases, left-joined with the means.
AggFull(f, pivot_year) ==
    LET tmp == Tmp(f, pivot_year)
        all_comms == SortedStrs(CommoditiesOf(tmp))
        fases == <<Sebelum(pivot_year), Sesudah(pivot_year)>>
    IN  [k \in 1 .. (Len(all_comms) * Len(fases)) |->
            LET c == all_comms[((k - 1) \div Len(fases)) + 1]
                fase == fases[((k - 1) % Len(fases)) + 1]
            IN  [commodity |-> c, fase |-> fase,
                 price |-> MeanPrice(tmp, c, fase)]]

\* The percentage change without denom's replace({0: np.nan}).
PerubahanNoReplace(before, after) ==
    NumRound(NumMul(NumDiv(NumSub(after, before), before), FromInt(100)),
             RoundDigits)

\* denom = before.replace({0: nan}); ((after - before) / denom) * 100, round(2)
Perubahan(before, after) ==
    LET denom == IF IsNum(before) /\ before.n = 0 THEN NaN ELSE before
    IN  NumRound(NumMul(NumDiv(NumSub(after, before), denom), FromInt(100)),
                 RoundDigits)

\* The value of agg_full at (c, fase).
AggValue(agg, c, fase) ==
    LET i == CHOOSE j \in DOMAIN agg : agg[j].commodity = c /\ agg[j].fase = fase
    IN  agg[i].price

\* pivot_tbl: one row per commodity of agg_full; the change column is added
\* when both phases are columns of the pivot.
PivotTbl(agg, pivot_year) ==
    LET comms == SortedStrs({agg[i].commodity : i \in DOMAIN agg})
        columns == {agg[i].fase : i \in DOMAIN agg}
        both == {Sebelum(pivot_year), Sesudah(pivot_year)} \subseteq columns
    IN  [k \in DOMAIN comms |->
            LET before == AggValue(agg, comms[k], Sebelum(pivot_year))
                after == AggValue(agg, comms[k], Sesudah(pivot_year))
            IN  [commodity |-> comms[k], before |-> before, after |-> after,
                 has_change |-> both,
                 change |-> IF both THEN Perubahan(before, after) ELSE NaN]]

NoPanel ==
    [name |-> "none", recent |-> <<>>, peaks |-> {}, last |-> {},
     years |-> <<>>, default_idx |-> 0, pivot_year |-> 0,
     agg_full |-> <<>>, pivot_tbl |-> <<>>]

-----------------------------------------------------------------------------
(* Export                                                                  *)

\* The cell of row r under column c.
Cell(r, c) ==
    CASE c = DATE -> <<YearOf(r.date), MonthOf(r.date), 1>>
      [] c = COMMODITY -> r.commodity
      [] c = PRICE -> r.price
      [] c = CURRENCY -> r.currency
      [] c = UNIT -> r.unit
      [] c = YEAR -> r.year
      [] c = MONTH -> r.month

\* df_f.to_csv(index=False): the header line, then one line per row with
\* the cells in column order.
ToCsv(t) ==
    <<t.cols>> \o [i \in DOMAIN t.rows |->
                     [j \in DOMAIN t.cols |-> Cell(t.rows[i], t.cols[j])]]

-----------------------------------------------------------------------------
(* One script run: lines 72-336 of app.py, top to bottom.                  *)

Stabilitas == "Stabilitas (Naik-Turun)"
Lonjakan == "Lonjakan Bulanan (MoM)"
Terbaru == "Harga Terbaru (Saat Ini)"
SebelumSesudah == "Sebelum vs Sesudah Periode"
Choices == {Stabilitas, Lonjakan, Terbaru, SebelumSesudah}

\* The selected panel, run on df_f (f) and dfx (x) with the selectbox value
\* pivot: what it computed and whether it warned and stopped or raised.
RunPanel(f, x, choice, pivot) ==
    LET base == [panel |-> [NoPanel EXCEPT !.name = choice],
                 warning |-> "none", halted |-> FALSE, raised |-> "none"]
    IN  IF choice = Stabilitas THEN
            LET recent == Recent(x)
            IN  IF recent = <<>>
                THEN [base EXCEPT !.warning = "insufficient_mom", !.halted = TRUE]
                ELSE [base EXCEPT !.panel.recent = recent]
        ELSE IF choice = Lonjakan THEN
            [base EXCEPT !.panel.peaks = Peaks(x)]
        ELSE IF choice = Terbaru THEN
            [base EXCEPT !.panel.last = Latest(f)]
        ELSE
            LET years == YearsOf(f)
                dflt == DefaultIdx(years)
            IN  IF dflt.raised
                THEN [base EXCEPT !.panel.years = years, !.raised = "ValueError"]
                ELSE LET agg == AggFull(f, pivot)
                     IN  [base EXCEPT
                            !.panel.years = years,
                            !.panel.default_idx = dflt.idx,
                            !.panel.pivot_year = pivot,
                            !.panel.agg_full = agg,
                            !.panel.pivot_tbl = PivotTbl(agg, pivot)]

\* The whole run on the memoized table d with the widget values given.
RunScript(d, sel, dr, choice, pivot) ==
    LET base == [df |-> d, df_f |-> NoTable, dfx |-> NoTable,
                 warning |-> "none", halted |-> FALSE, raised |-> "none",
                 panel |-> NoPanel, csv_out |-> <<>>, pc |-> "end"]
    IN  IF Len(dr) < 2
        THEN \* date_range[1] on a range whose end is not picked yet
             [base EXCEPT !.raised = "IndexError", !.pc = "date_range"]
        ELSE
        LET filtered == FilterData(d, sel, dr[1], dr[2])
        IN  IF IsEmpty(filtered.ret)
            THEN [base EXCEPT !.df = filtered.arg, !.df_f = filtered.ret,
                              !.warning = "empty_filter", !.halted = TRUE,
                              !.pc = "filter_stop"]
            ELSE
            LET changed == AddChanges(filtered.ret)
                p == RunPanel(changed.arg, changed.ret, choice, pivot)
                ran == [base EXCEPT !.df = filtered.arg, !.df_f = changed.arg,
                                    !.dfx = changed.ret, !.panel = p.panel,
                                    !.warning = p.warning, !.halted = p.halted,
                                    !.raised = p.raised]
            IN  IF p.halted THEN [ran EXCEPT !.pc = "panel_stop"]
                ELSE IF p.raised # "none" THEN [ran EXCEPT !.pc = "panel_raise"]
                ELSE [ran EXCEPT !.csv_out = ToCsv(changed.arg)]

\* The options of the pivot-year selectbox of a run with these widget
\* values; {0} when the run does not get to show it.
PivotOptions(d, sel, dr, choice) ==
    IF choice # SebelumSesudah \/ Len(dr) < 2 THEN {0}
    ELSE LET f == FilterData(d, sel, dr[1], dr[2]).ret
         IN  IF IsEmpty(f) \/ DefaultIdx(YearsOf(f)).raised THEN {0}
             ELSE Range(YearsOf(f))

\* df["date"].min(), df["date"].max()
MinDateOf(d) ==
    CHOOSE x \in {d.rows[i].date : i \in DOMAIN d.rows} :
        \A i \in DOMAIN d.rows : x <= d.rows[i].date

MaxDateOf(d) ==
    CHOOSE x \in {d.rows[i].date : i \in DOMAIN d.rows} :
        \A i \in DOMAIN d.rows : x >= d.rows[i].date

\* The dates the range picker offers: those between min_date and max_date.
PickableDates(d) ==
    {x \in Dates : MinDateOf(d) <= x /\ x <= MaxDateOf(d)}

\* The values st.date_input can return: a complete range, or only its start
\* while the end is not picked yet.
DateRanges(d) ==
    LET picks == PickableDates(d)
        Start(s) == <<s>>
        Both(s, e) == <<s, e>>
    IN  {Start(s) : s \in picks}
        \cup {Both(r[1], r[2]) : r \in {q \in picks \X picks : q[1] <= q[2]}}

-----------------------------------------------------------------------------
(* Input files.                                                            *)

HeaderPool ==
    << <<" ", "D", "a", "t", "e">>,
       <<"C", "o", "m", "m", "o", "d", "i", "t", "y", " ">>,
       <<"P", "R", "I", "C", "E">>,
       <<"C", "u", "r", "r", "e", "n", "c", "y">>,
       <<" ", "u", "n", "i", "t">> >>

\* The names of HeaderPool at the indices in I, in pool order.
RECURSIVE HeaderFrom(_, _)
HeaderFrom(I, i) ==
    IF i > Len(HeaderPool) THEN <<>>
    ELSE (IF i \in I THEN <<HeaderPool[i]>> ELSE <<>>) \o HeaderFrom(I, i + 1)

Headers == {HeaderFrom(I, 1) : I \in SUBSET DOMAIN HeaderPool}

BadCell == [ok |-> FALSE, v |-> 0]
OkCell(v) == [ok |-> TRUE, v |-> v]

RawCommodities == {Oil, <<" ">> \o Rice \o <<" ">>}

RawRow(c, d, p) ==
    [date |-> d, commodity |-> c, price |-> p,
     currency |-> IDR \o <<" ">>, unit |-> <<" ">> \o Kg]

MinDate == CHOOSE d \in Dates : \A e \in Dates : d <= e
MaxDate == CHOOSE d \in Dates : \A e \in Dates : d >= e

\* Rows of a raw file: any order, cells that may fail to parse.
RawRows ==
    {RawRow(c, d, p) : c \in RawCommodities,
                       d \in {OkCell(MinDate), OkCell(MaxDate), BadCell},
                       p \in {OkCell(0), OkCell(MaxPrice), BadCell}}

SeqsUpTo(S, n) == UNION {[1 .. k -> S] : k \in 0 .. n}

InputFiles ==
    {[columns |-> h, rows |-> r] : h \in Headers, r \in SeqsUpTo(RawRows, MaxFileRows)}

\* The date columns of k rows of one commodity, in date order.
DateSeqs(k) ==
    {s \in [1 .. k -> Dates] : \A i \in 1 .. k - 1 : s[i] <= s[i + 1]}

\* The rows of commodity c with the dates ds and the prices ps, all cells
\* parseable.
CleanGroup(c, ds, ps) ==
    [i \in DOMAIN ds |-> RawRow(c, OkCell(ds[i]), OkCell(ps[i]))]

\* A file with the three required columns whose rows parse and are written
\* in (commodity, date) order.
CleanFile(oil_dates, oil_prices, rice_dates, rice_prices) ==
    [columns |-> HeaderFrom({1, 2, 3}, 1),
     rows |-> CleanGroup(Oil, oil_dates, oil_prices)
              \o CleanGroup(<<" ">> \o Rice \o <<" ">>, rice_dates, rice_prices)]

-----------------------------------------------------------------------------
(* Actions.                                                                *)

NoOutput ==
    /\ df_f = NoTable
    /\ dfx = NoTable
    /\ warning = "none"
    /\ halted = FALSE
    /\ raised = "none"
    /\ panel = NoPanel
    /\ csv_out = <<>>
    /\ pc = "none"

\* Before the first call of load_data.
InitLoad ==
    /\ file \in InputFiles
    /\ cache = NoTable
    /\ loadState = "pending"
    /\ loadError = NoError
    /\ df = NoTable
    /\ selected = {}
    /\ date_range = <<>>
    /\ info_choice = "none"
    /\ NoOutput

\* df = load_data(DATA_PATH), the first call: the result is memoized, a
\* ValueError ends the run.
Load ==
    /\ loadState = "pending"
    /\ \E r \in {LoadData(file)} :
           /\ loadState' = IF r.error THEN "error" ELSE "ok"
           /\ loadError' = [missing |-> r.missing,
                            found |-> IF r.error THEN r.found ELSE <<>>]
           /\ cache' = r.table
           /\ df' = r.table
    /\ UNCHANGED <<file, selected, date_range, info_choice, df_f, dfx,
                   warning, halted, raised, panel, csv_out, pc>>

\* The first call of load_data has returned the table of the file f and the
\* widgets hold their defaults: every commodity, the whole date range, the
\* first menu entry.
Loaded(f) ==
    /\ file = f
    /\ cache = LoadData(f).table
    /\ loadState = "ok"
    /\ loadError = NoError
    /\ df = cache
    /\ selected = CommoditiesOf(cache.rows)
    /\ date_range = <<MinDateOf(cache), MaxDateOf(cache)>>
    /\ info_choice = Stabilitas
    /\ NoOutput

\* Loaded from a clean file of 1 to n rows with prices from P.
LoadedClean(P, n) ==
    \E a \in 0 .. n : \E b \in 0 .. (n - a) :
        /\ a + b >= 1
        /\ \E od \in DateSeqs(a), op \in [1 .. a -> P],
              rd \in DateSeqs(b), rp \in [1 .. b -> P] :
              Loaded(CleanFile(od, op, rd, rp))

Init == LoadedClean({0, MaxPrice}, MaxFilterRows)

InitMenu == LoadedClean(Prices, MaxRows)

\* One run of the script, top to bottom, with the widget values given;
\* load_data returns the memoized table.
Run(sel, dr, choice) ==
    /\ loadState = "ok"
    /\ \E pivot \in PivotOptions(cache, sel, dr, choice) :
       \E r \in {RunScript(cache, sel, dr, choice, pivot)} :
          /\ selected' = sel
          /\ date_range' = dr
          /\ info_choice' = choice
          /\ df' = r.df
          /\ df_f' = r.df_f
          /\ dfx' = r.dfx
          /\ warning' = r.warning
          /\ halted' = r.halted
          /\ raised' = r.raised
          /\ panel' = r.panel
          /\ csv_out' = r.csv_out
          /\ pc' = r.pc
    /\ UNCHANGED <<file, cache, loadState, loadError>>

\* One render cycle.  The first run has the default widget values; every
\* later run follows one interaction, which changes at most one of the
\* three filter and menu widgets (the pivot selectbox takes any option).
Render ==
    \E sel \in SUBSET CommoditiesOf(cache.rows),
       dr \in DateRanges(cache),
       choice \in Choices :
       /\ IF pc = "none"
          THEN sel = selected /\ dr = date_range /\ choice = info_choice
          ELSE \/ sel = selected /\ dr = date_range
               \/ sel = selected /\ choice = info_choice
               \/ dr = date_range /\ choice = info_choice
       /\ Run(sel, dr, choice)

\* One render cycle of a user who leaves the filters at their defaults and
\* only uses the menu and the pivot selectbox.
RenderMenu ==
    \E choice \in Choices :
       /\ pc = "none" => choice = info_choice
       /\ Run(selected, date_range, choice)

NextLoad == Load
Next == Render
NextMenu == RenderMenu

SpecLoad == InitLoad /\ [][NextLoad]_vars
Spec == Init /\ [][Next]_vars
SpecMenu == InitMenu /\ [][NextMenu]_vars

-----------------------------------------------------------------------------
(* Properties.                                                             *)

\* The latest run got past the date range and called filter_data.
Filtered == pc \in {"filter_stop", "panel_stop", "panel_raise", "end"}

\* The latest run got past the empty check and called add_changes.
Derived == pc \in {"panel_stop", "panel_raise", "end"}

\* The rows of the loaded table that the filter widgets ask for.
Wanted ==
    {i \in DOMAIN cache.rows :
        /\ cache.rows[i].commodity \in selected
        /\ date_range[1] <= cache.rows[i].date
        /\ cache.rows[i].date <= date_range[2]}

\* The k-th smallest element of a set of integers.
Kth(S, k) == CHOOSE i \in S : Cardinality({j \in S : j <= i}) = k

\* m is (b / a - 1) * 100, as floating point division gives it for a = 0.
MomMatches(m, b, a) ==
    IF a # 0 THEN IsNum(m) /\ m.n * a = m.d * (b - a) * 100
    ELSE IF b = 0 THEN IsNA(m)
    ELSE m = Inf(Sign(b))

\* Rows a and b are of one commodity, a earlier, none strictly between.
Consecutive(rows, a, b) ==
    /\ rows[a].commodity = rows[b].commodity
    /\ rows[a].date < rows[b].date
    /\ ~\E c \in DOMAIN rows :
          /\ rows[c].commodity = rows[a].commodity
          /\ rows[a].date < rows[c].date
          /\ rows[c].date < rows[b].date

\* No other row of the commodity of row a has its date.
AloneOnDate(rows, a) ==
    \A c \in DOMAIN rows :
        (rows[c].commodity = rows[a].commodity /\ rows[c].date = rows[a].date)
            => c = a

\* The rows of the commodity of row i that come before it.
Earlier(rows, i) ==
    {j \in 1 .. (i - 1) : rows[j].commodity = rows[i].commodity}

\* The row right before row i among those of its commodity.
Predecessor(rows, i) ==
    CHOOSE j \in Earlier(rows, i) : \A k \in Earlier(rows, i) : k <= j

(* C1: load_data fails exactly when a required key is absent from the      *)
(* lower-cased, trimmed column names; the error then names exactly the     *)
(* missing keys and lists the columns found, and no table is returned;     *)
(* when all three are present the error is not raised.                     *)
C1_LoadValidation ==
    loadState # "pending" =>
        LET norm == [i \in DOMAIN file.columns |->
                        StrLower(StrStrip(file.columns[i]))]
            miss == {k \in {DATE, COMMODITY, PRICE} :
                        \A i \in DOMAIN norm : norm[i] # k}
        IN  IF miss # {}
            THEN /\ loadState = "error"
                 /\ loadError.missing = miss
                 /\ loadError.found = norm
                 /\ cache = NoTable
                 /\ df = NoTable
            ELSE /\ loadState = "ok"
                 /\ loadError = NoError

\* A file with rows and every required column but price failed to load.
C1_Witness ==
    /\ loadState = "error"
    /\ loadError.missing = {PRICE}
    /\ Len(file.rows) > 0
    /\ Len(file.columns) > 2

(* C2: when no row of the loaded table passes the filter, the run shows    *)
(* the warning and stops: add_changes is not run, no panel is computed,    *)
(* nothing is exported and nothing is raised.                              *)
C2_EmptyFilterHalts ==
    (pc # "none" /\ Len(date_range) = 2 /\ Wanted = {}) =>
        /\ pc = "filter_stop"
        /\ warning = "empty_filter"
        /\ halted
        /\ raised = "none"
        /\ IsEmpty(df_f)
        /\ dfx = NoTable
        /\ panel = NoPanel
        /\ csv_out = <<>>

\* Some commodity was selected and still nothing passed the filter.
C2_Witness ==
    /\ pc = "filter_stop"
    /\ selected # {}
    /\ warning = "empty_filter"

(* C3: filter_data returns exactly the rows whose commodity is selected    *)
(* and whose date lies in [start, end], both bounds inclusive, each once   *)
(* and in the order of the loaded table.                                   *)
C3_FilterExact ==
    Filtered =>
        /\ df_f.cols = cache.cols
        /\ Len(df_f.rows) = Cardinality(Wanted)
        /\ \A k \in DOMAIN df_f.rows : df_f.rows[k] = cache.rows[Kth(Wanted, k)]

\* A filter over a proper range that kept a row dated on its end bound and
\* dropped another row.
C3_Witness ==
    /\ Filtered
    /\ date_range[1] < date_range[2]
    /\ \E i \in DOMAIN df_f.rows : df_f.rows[i].date = date_range[2]
    /\ Len(df_f.rows) < Len(cache.rows)

(* C4 as stated: for any two consecutive observations A, B of a commodity, *)
(* B.mom_pct = (B.price / A.price - 1) * 100, also with several            *)
(* observations of the commodity on one date.                              *)
C4_Original ==
    Derived =>
        \A a \in DOMAIN dfx.rows, b \in DOMAIN dfx.rows :
            Consecutive(dfx.rows, a, b) =>
                MomMatches(dfx.rows[b].mom_pct, dfx.rows[b].price,
                           dfx.rows[a].price)

(* C4 as amended: the equation holds when neither A's date nor B's date is *)
(* shared by another observation of that commodity.                        *)
C4_MomOfConsecutive ==
    Derived =>
        \A a \in DOMAIN dfx.rows, b \in DOMAIN dfx.rows :
            (/\ Consecutive(dfx.rows, a, b)
             /\ AloneOnDate(dfx.rows, a)
             /\ AloneOnDate(dfx.rows, b)) =>
                MomMatches(dfx.rows[b].mom_pct, dfx.rows[b].price,
                           dfx.rows[a].price)

\* Two consecutive observations alone on their dates with a non-zero change,
\* in a table that also holds another commodity.
C4_Witness ==
    /\ Derived
    /\ \E a \in DOMAIN dfx.rows, b \in DOMAIN dfx.rows :
          /\ Consecutive(dfx.rows, a, b)
          /\ AloneOnDate(dfx.rows, a)
          /\ AloneOnDate(dfx.rows, b)
          /\ IsNum(dfx.rows[b].mom_pct)
          /\ dfx.rows[b].mom_pct.n # 0
    /\ Cardinality(CommoditiesOf(dfx.rows)) > 1

(* C5 as stated: mom_pct is defined iff the row is at position 2 or later  *)
(* among its commodity's rows, for every price including 0.                *)
C5_Original ==
    Derived =>
        \A i \in DOMAIN dfx.rows :
            (~IsNA(dfx.rows[i].mom_pct)) <=> (Earlier(dfx.rows, i) # {})

(* C5 as amended: mom_pct is defined iff the row is at position 2 or later *)
(* among its commodity's rows and its price and its predecessor's are not  *)
(* both 0; the value is taken against the previous row of the same         *)
(* commodity, never a row of another one.                                  *)
C5_MomDefined ==
    Derived =>
        \A i \in DOMAIN dfx.rows :
            IF Earlier(dfx.rows, i) = {}
            THEN IsNA(dfx.rows[i].mom_pct)
            ELSE LET prev == dfx.rows[Predecessor(dfx.rows, i)]
                 IN  /\ MomMatches(dfx.rows[i].mom_pct, dfx.rows[i].price,
                                   prev.price)
                     /\ IsNA(dfx.rows[i].mom_pct)
                            <=> (dfx.rows[i].price = 0 /\ prev.price = 0)

\* A commodity's first row right after another commodity's rows, and a row
\* whose price and predecessor's price are both 0.
C5_Witness ==
    /\ Derived
    /\ \E i \in DOMAIN dfx.rows :
          /\ i > 1
          /\ Earlier(dfx.rows, i) = {}
          /\ IsNA(dfx.rows[i].mom_pct)
    /\ \E i \in DOMAIN dfx.rows :
          /\ Earlier(dfx.rows, i) # {}
          /\ dfx.rows[i].price = 0
          /\ dfx.rows[Predecessor(dfx.rows, i)].price = 0

\* The before/after panel of the latest run computed its tables.
PanelDone == pc = "end" /\ info_choice = SebelumSesudah

\* The prices of the rows of df_f of commodity c before (or after) the pivot.
PhaseRows(c, before) ==
    {i \in DOMAIN df_f.rows :
        /\ df_f.rows[i].commodity = c
        /\ IF before THEN df_f.rows[i].year < panel.pivot_year
                     ELSE df_f.rows[i].year > panel.pivot_year}

RECURSIVE SumOver(_)
SumOver(I) ==
    IF I = {} THEN 0
    ELSE LET i == CHOOSE j \in I : TRUE
         IN  df_f.rows[i].price + SumOver(I \ {i})

\* v is the mean price of the rows I of df_f, NaN when there are none.
IsMeanOf(v, I) ==
    IF I = {} THEN IsNA(v)
    ELSE IsNum(v) /\ v.n * Cardinality(I) = v.d * SumOver(I)

\* agg_full has exactly one entry for commodity c and the phase, holding
\* the mean price of the phase's rows.
OneEntry(c, before) ==
    LET label == IF before THEN Sebelum(panel.pivot_year)
                           ELSE Sesudah(panel.pivot_year)
        at == {k \in DOMAIN panel.agg_full :
                  /\ panel.agg_full[k].commodity = c
                  /\ panel.agg_full[k].fase = label}
    IN  /\ Cardinality(at) = 1
        /\ \A k \in at : IsMeanOf(panel.agg_full[k].price, PhaseRows(c, before))

(* C6: for every selectable pivot year the grid holds exactly one entry    *)
(* per (commodity, phase) over all commodities of the filtered table and   *)
(* both phases, with the mean of the phase's rows or an undefined value.   *)
C6_Original ==
    PanelDone =>
        /\ \A c \in CommoditiesOf(df_f.rows), before \in BOOLEAN :
              OneEntry(c, before)
        /\ Len(panel.agg_full) = 2 * Cardinality(CommoditiesOf(df_f.rows))

\* change is exactly ((after - before) / before) * 100.
ExactChange(change, before, after) ==
    /\ IsNum(change)
    /\ change.n * before.n * after.d
          = change.d * 100 * (after.n * before.d - before.n * after.d)

\* change is a multiple of 1/100 at most 1/200 away from
\* ((after - before) / before) * 100.
RoundedChange(change, before, after) ==
    /\ IsNum(change)
    /\ 100 % change.d = 0
    /\ 200 * Abs(change.n * before.n * after.d
                   - change.d * 100 * (after.n * before.d - before.n * after.d))
          <= change.d * Abs(before.n) * after.d

(* C7 as stated: the percentage change is ((after - before) / before) * 100 *)
(* when both means exist and the before-mean is not 0, and undefined when  *)
(* the before-mean is 0 or missing.                                        *)
C7_Original ==
    PanelDone =>
        \A k \in DOMAIN panel.pivot_tbl :
            LET row == panel.pivot_tbl[k]
            IN  /\ row.has_change
                /\ (IsNum(row.before) /\ row.before.n # 0 /\ IsNum(row.after))
                      => ExactChange(row.change, row.before, row.after)
                /\ (IsNA(row.before) \/ row.before.n = 0) => IsNA(row.change)

(* C7 as amended: the percentage change is that value rounded to two       *)
(* decimal places, and undefined when the before-mean is 0 or missing.     *)
C7_ChangeRounded ==
    PanelDone =>
        \A k \in DOMAIN panel.pivot_tbl :
            LET row == panel.pivot_tbl[k]
            IN  /\ row.has_change
                /\ (IsNum(row.before) /\ row.before.n # 0 /\ IsNum(row.after))
                      => RoundedChange(row.change, row.before, row.after)
                /\ (IsNA(row.before) \/ row.before.n = 0) => IsNA(row.change)

\* A pivot table with a defined, non-zero before-mean whose change was
\* altered by the rounding.
C7_Witness ==
    /\ PanelDone
    /\ \E k \in DOMAIN panel.pivot_tbl :
          LET row == panel.pivot_tbl[k]
          IN  /\ IsNum(row.before) /\ row.before.n # 0 /\ IsNum(row.after)
              /\ ~ExactChange(row.change, row.before, row.after)

\* A pivot table with a before-mean of 0 and a defined after-mean.
C7_WitnessZero ==
    /\ PanelDone
    /\ \E k \in DOMAIN panel.pivot_tbl :
          LET row == panel.pivot_tbl[k]
          IN  /\ IsNum(row.before) /\ row.before.n = 0
              /\ IsNum(row.after) /\ row.after.n # 0
              /\ IsNA(row.change)

(* C8: across render cycles the loaded table is never changed: after every *)
(* run its rows and columns are those load_data returned.                  *)
C8_LoadedUnchanged ==
    loadState = "ok" =>
        /\ df = cache
        /\ cache = LoadData(file).table

\* A later run than the first that filtered rows out, derived the changes
\* and ran the before/after panel to its end.
C8_Witness ==
    /\ PanelDone
    /\ Len(df_f.rows) < Len(cache.rows)
    /\ dfx.cols # cache.cols

(* C9: for every non-empty filtered table the default pivot-year index is  *)
(* computed without raising and is an index of the list of years.          *)
C9_Original ==
    (Derived /\ info_choice = SebelumSesudah) =>
        /\ raised = "none"
        /\ panel.default_idx \in 0 .. (Len(panel.years) - 1)

\* No row among the last TailRows of its commodity has a defined mom_pct.
NoRecentMom ==
    \A i \in DOMAIN dfx.rows :
        Cardinality({j \in (i + 1) .. Len(dfx.rows) :
                        dfx.rows[j].commodity = dfx.rows[i].commodity}) < TailRows
            => IsNA(dfx.rows[i].mom_pct)

\* 2020 is a year of the filtered table and 2021 is not.
DefaultYearMissing ==
    /\ \E i \in DOMAIN df_f.rows : df_f.rows[i].year = GuardYear
    /\ \A i \in DOMAIN df_f.rows : df_f.rows[i].year # DefaultYear

====
